---- MODULE Spec2Model ----
(***************************************************************************)
(* Model of bustub's SkipList (src/primer/skiplist.cpp).                   *)
(*                                                                         *)
(* The list is a header node (id Hdr) and heap nodes (ids 1..MaxSize).     *)
(* Every node has a key and a vector of forward links, one per level of    *)
(* its height.  Nodes are held by shared_ptr: a node no link leads to is   *)
(* released, which Collect models.  Each public operation is one action.   *)
(* An operation that runs into undefined behaviour (index past the end of  *)
(* links_, dereference of a null link) either ends the process or returns  *)
(* with an arbitrary result and the links written so far.                  *)
(***************************************************************************)
EXTENDS Integers, FiniteSets, Sequences, TLC

\* ---- bounds of the model ----
MaxHeight == 2          \* template parameter MaxHeight, kept small
MaxSize == 2            \* cap on size_, which the code never decrements
MinKey == 0 - 2
MaxKey == 1

\* ---- program constants ----
LOWEST_LEVEL == 0
branching_factor == 4
SizeTModulus == 2 ^ 16  \* size_t arithmetic is modular; width shortened

Keys == MinKey .. MaxKey
Levels == 0 .. (MaxHeight - 1)
Hdr == 0
Nil == 0 - 1
NodeIds == 1 .. MaxSize
HeaderKey == 0          \* SkipNode(height, K key = K{}): the header's key_

VARIABLES key_, links_, size_, lastOp, lastKey, ret

vars == <<key_, links_, size_, lastOp, lastKey, ret>>

\* compare_ is std::less<K>
compare_(a, b) == a < b

\* !compare_(a, b) && !compare_(b, a)
Equiv(a, b) == ~compare_(a, b) /\ ~compare_(b, a)

\* SkipNode::Height
Height(L, n) == Cardinality(DOMAIN L[n])

\* links_[level] is inside the vector
InBounds(L, n, level) == level \in DOMAIN L[n]

\* ---- shared_ptr ownership: nodes no chain of links leads to are freed ----
RECURSIVE ReachFrom(_, _)
ReachFrom(L, S) ==
  LET N == {L[p[1]][p[2]] : p \in {q \in S \X Levels : q[2] \in DOMAIN L[q[1]]}} \ {Nil}
  IN  IF N \subseteq S THEN S ELSE ReachFrom(L, S \cup N)

Collect(f, L) == [n \in ReachFrom(L, {Hdr}) |-> f[n]]

\* ---- SkipList::RandomHeight ----
\* draws[j] is the j-th value of rng_() % branching_factor
RECURSIVE GrowHeight(_, _)
GrowHeight(draws, height) ==
  IF height < MaxHeight /\ draws[height] = 0
  THEN GrowHeight(draws, height + 1)
  ELSE height

\* a generator that counts levels from 0 instead of heights from 1
RandomHeightZeroBased(draws) == GrowHeight(draws, 1) - 1

RandomHeight(draws) == GrowHeight(draws, 1)

\* the values rng_() % branching_factor one call of RandomHeight consumes:
\* rng_ is called again only after a 0 and only while height < MaxHeight
Draws ==
  {d \in UNION {[1 .. n -> 0 .. (branching_factor - 1)] : n \in 1 .. (MaxHeight - 1)} :
     /\ \A j \in 1 .. (Len(d) - 1) : d[j] = 0
     /\ d[Len(d)] = 0 => Len(d) = MaxHeight - 1}

\* ---- SkipList::Contains ----
\* the while loop of one level, from node
RECURSIVE ContainsWalk(_, _, _, _, _)
ContainsWalk(L, K, key, node, i) ==
  IF node = Nil THEN "end"
  ELSE IF Equiv(key, K[node]) THEN "found"
  ELSE IF compare_(key, K[node]) THEN "end"
  ELSE IF ~InBounds(L, node, i) THEN "ub"
  ELSE ContainsWalk(L, K, key, L[node][i], i)

\* the for loop: size_t i counts down and i >= 0 holds for every size_t
RECURSIVE ContainsLevels(_, _, _, _)
ContainsLevels(L, K, key, i) ==
  IF ~(i >= 0) THEN [ret |-> FALSE, ub |-> FALSE]
  ELSE IF ~InBounds(L, Hdr, i) THEN [ret |-> FALSE, ub |-> TRUE]
  ELSE LET w == ContainsWalk(L, K, key, L[Hdr][i], i)
       IN  IF w = "found" THEN [ret |-> TRUE, ub |-> FALSE]
           ELSE IF w = "ub" THEN [ret |-> FALSE, ub |-> TRUE]
           ELSE ContainsLevels(L, K, key, (i - 1) % SizeTModulus)

ContainsOp(L, K, key) == ContainsLevels(L, K, key, MaxHeight - 1)

\* ---- SkipList::Insert ----
\* the while loop of one level, from current
RECURSIVE InsertWalk(_, _, _, _, _)
InsertWalk(L, K, key, current, i) ==
  IF ~InBounds(L, current, i) THEN [kind |-> "ub", node |-> current]
  ELSE IF L[current][i] # Nil /\ compare_(K[L[current][i]], key)
  THEN IF Equiv(key, K[current]) THEN [kind |-> "found", node |-> current]
       ELSE IF compare_(key, K[current]) THEN [kind |-> "stop", node |-> current]
       ELSE InsertWalk(L, K, key, L[current][i], i)
  ELSE [kind |-> "stop", node |-> current]

\* the descent: int i from MaxHeight - 1 down to 0, filling update
RECURSIVE InsertDescend(_, _, _, _, _, _)
InsertDescend(L, K, key, current, i, update) ==
  IF ~(i >= 0) THEN [kind |-> "ok", update |-> update]
  ELSE LET w == InsertWalk(L, K, key, current, i)
       IN  IF w.kind = "stop"
           THEN InsertDescend(L, K, key, w.node, i - 1, [update EXCEPT ![i] = w.node])
           ELSE [kind |-> w.kind, update |-> update]

\* a splice that relinks the header instead of update[i]
RECURSIVE SpliceAtHeader(_, _, _, _)
SpliceAtHeader(L, update, new_node, i) ==
  IF ~(i >= 0) THEN L
  ELSE SpliceAtHeader([L EXCEPT ![new_node][i] = L[update[i]][i],
                                ![Hdr][i] = new_node],
                      update, new_node, i - 1)

\* the splice loop: int i from random_height - 1 down to 0
RECURSIVE Splice(_, _, _, _)
Splice(L, update, new_node, i) ==
  IF ~(i >= 0) THEN L
  ELSE Splice([L EXCEPT ![new_node][i] = L[update[i]][i],
                        ![update[i]][i] = new_node],
              update, new_node, i - 1)

\* std::make_shared<SkipNode>(random_height, key): a fresh node, links null
NewId(L) == CHOOSE n \in NodeIds : n \notin DOMAIN L /\ \A m \in NodeIds : m < n => m \in DOMAIN L

WithNode(L, n, h) == [m \in DOMAIN L \cup {n} |-> IF m = n THEN [i \in 0 .. (h - 1) |-> Nil] ELSE L[m]]

WithKey(K, n, key) == [m \in DOMAIN K \cup {n} |-> IF m = n THEN key ELSE K[m]]

InsertOp(L, K, sz, key, random_height) ==
  LET new_node == NewId(L)
      L1 == WithNode(L, new_node, random_height)
      K1 == WithKey(K, new_node, key)
      d == InsertDescend(L1, K1, key, Hdr, MaxHeight - 1, [i \in Levels |-> Nil])
  IN  IF d.kind = "ok"
      THEN [ret |-> TRUE, ub |-> FALSE, links |-> Splice(L1, d.update, new_node, random_height - 1),
            keys |-> K1, size |-> sz + 1]
      ELSE [ret |-> FALSE, ub |-> d.kind = "ub", links |-> L, keys |-> K, size |-> sz]

\* ---- SkipList::Erase ----
\* the while loop of one level, from node; null says that the loop read the
\* key of an absent successor (node->Next(i)->Key() with Next(i) null)
RECURSIVE EraseWalk(_, _, _, _, _)
EraseWalk(L, K, key, node, i) ==
  IF node = Nil THEN [links |-> L, ub |-> FALSE, null |-> FALSE]
  ELSE IF ~InBounds(L, node, i) THEN [links |-> L, ub |-> TRUE, null |-> FALSE]
  ELSE IF L[node][i] = Nil THEN [links |-> L, ub |-> TRUE, null |-> TRUE]
  ELSE LET nx == L[node][i]
           hit == Equiv(key, K[nx])
       IN  IF hit /\ ~InBounds(L, nx, i) THEN [links |-> L, ub |-> TRUE, null |-> FALSE]
           ELSE LET L1 == IF hit THEN [L EXCEPT ![node][i] = L[nx][i]] ELSE L
                IN  IF compare_(key, K[node]) THEN [links |-> L1, ub |-> FALSE, null |-> FALSE]
                    ELSE EraseWalk(L1, K, key, L1[node][i], i)

\* the for loop: size_t i counts down and i >= 0 holds for every size_t
RECURSIVE EraseLevels(_, _, _, _)
EraseLevels(L, K, key, i) ==
  IF ~(i >= 0) THEN [links |-> L, ub |-> FALSE, null |-> FALSE]
  ELSE LET w == EraseWalk(L, K, key, Hdr, i)
       IN  IF w.ub THEN w
           ELSE EraseLevels(w.links, K, key, (i - 1) % SizeTModulus)

EraseLoop(L, K, key) == EraseLevels(L, K, key, MaxHeight - 1)

\* ---- SkipList::Drop ----
\* the while loop of one level: curr = std::move(curr->links_[i])
RECURSIVE DropWalk(_, _, _)
DropWalk(L, curr, i) ==
  IF curr = Nil THEN [links |-> L, ub |-> FALSE]
  ELSE IF ~InBounds(L, curr, i) THEN [links |-> L, ub |-> TRUE]
  ELSE DropWalk([L EXCEPT ![curr][i] = Nil], L[curr][i], i)

\* the for loop: size_t i from 0 while i < MaxHeight
RECURSIVE DropLevels(_, _)
DropLevels(L, i) ==
  IF ~(i < MaxHeight) THEN [links |-> L, ub |-> FALSE]
  ELSE LET w == DropWalk([L EXCEPT ![Hdr][i] = Nil], L[Hdr][i], i)
       IN  IF w.ub THEN w ELSE DropLevels(w.links, i + 1)

Drop(L) == DropLevels(L, 0)

\* ---- SkipList::Empty, SkipList::Size ----
Empty == links_[Hdr][LOWEST_LEVEL] = Nil

Size == size_

\* ---- the list seen as data ----
\* nodes on the level-i chain, in link order
RECURSIVE ChainFrom(_, _, _)
ChainFrom(L, n, i) ==
  IF n = Nil THEN <<>> ELSE <<n>> \o ChainFrom(L, L[n][i], i)

Chain(L, i) == ChainFrom(L, L[Hdr][i], i)

\* heap nodes the list owns
Resident(L) == DOMAIN L \ {Hdr}

ResidentKey(L, K, k) == \E n \in Resident(L) : Equiv(K[n], k)

\* ---- the state machine ----
Running == ret # "crash"

Init ==
  /\ key_ = [n \in {Hdr} |-> HeaderKey]
  /\ links_ = [n \in {Hdr} |-> [i \in Levels |-> Nil]]
  /\ size_ = 0
  /\ lastOp = "new"
  /\ lastKey = HeaderKey
  /\ ret = "void"

Bool(b) == IF b THEN "true" ELSE "false"

\* what an operation that hit undefined behaviour leaves behind
Undefined == {"crash", "true", "false"}

Insert(key) ==
  /\ Running
  /\ size_ < MaxSize
  /\ \E draws \in Draws :
       LET r == InsertOp(links_, key_, size_, key, RandomHeight(draws))
       IN  /\ links_' = Collect(r.links, r.links)
           /\ key_' = Collect(r.keys, r.links)
           /\ size_' = r.size
           /\ ret' \in (IF r.ub THEN Undefined ELSE {Bool(r.ret)})
  /\ lastOp' = "Insert"
  /\ lastKey' = key

Contains(key) ==
  /\ Running
  /\ LET r == ContainsOp(links_, key_, key)
     IN  ret' \in (IF r.ub THEN Undefined ELSE {Bool(r.ret)})
  /\ lastOp' = "Contains"
  /\ lastKey' = key
  /\ UNCHANGED <<key_, links_, size_>>

Erase(key) ==
  /\ Running
  /\ LET c == ContainsOp(links_, key_, key)
         e == EraseLoop(links_, key_, key)
     IN  \/ /\ c.ub
            /\ ret' = "crash"
            /\ UNCHANGED <<key_, links_>>
         \/ /\ (c.ub \/ ~c.ret)
            /\ ret' = "false"
            /\ UNCHANGED <<key_, links_>>
         \/ /\ (c.ub \/ c.ret)
            /\ ret' \in (IF e.ub THEN Undefined ELSE {"true"})
            /\ links_' = Collect(e.links, e.links)
            /\ key_' = Collect(key_, e.links)
  /\ lastOp' = "Erase"
  /\ lastKey' = key
  /\ UNCHANGED size_

Clear ==
  /\ Running
  /\ LET r == Drop(links_)
     IN  /\ links_' = Collect(r.links, r.links)
         /\ key_' = Collect(key_, r.links)
         /\ ret' \in (IF r.ub THEN Undefined ELSE {"void"})
  /\ lastOp' = "Clear"
  /\ lastKey' = HeaderKey
  /\ UNCHANGED size_

Next ==
  \/ \E key \in Keys : Insert(key)
  \/ \E key \in Keys : Contains(key)
  \/ \E key \in Keys : Erase(key)
  \/ Clear

Spec == Init /\ [][Next]_vars

TypeOK ==
  /\ DOMAIN links_ \subseteq NodeIds \cup {Hdr}
  /\ DOMAIN key_ = DOMAIN links_
  /\ size_ \in 0 .. MaxSize
  /\ ret \in {"void", "true", "false", "crash"}

\* ---- properties ----
\* a following Contains(key) runs to its return statement and returns b
ContainsReturns(L, K, key, b) == ContainsOp(L, K, key) = [ret |-> b, ub |-> FALSE]

\* keys along the level-i chain, in link order
ChainKeys(L, K, i) == [j \in 1 .. Len(Chain(L, i)) |-> K[Chain(L, i)[j]]]

StrictlyAscending(s) == \A j \in 1 .. (Len(s) - 1) : compare_(s[j], s[j + 1])

Range(s) == {s[j] : j \in 1 .. Len(s)}

\* C1: Insert(k) of a resident key k returns false and leaves Size() and
\* every link of the header and of every node as they were.
C1_DuplicateInsertNoOp ==
  [][(lastOp' = "Insert" /\ ResidentKey(links_, key_, lastKey'))
       => (ret' = "false" /\ size_' = size_ /\ links_' = links_)]_vars

\* C2: Insert(k) of a key k that is not resident returns true, Size() grows
\* by exactly 1 and a following Contains(k) returns true.
C2_InsertContains ==
  [][(lastOp' = "Insert" /\ ~ResidentKey(links_, key_, lastKey'))
       => (/\ ret' = "true"
           /\ size_' = size_ + 1
           /\ ContainsReturns(links_', key_', lastKey', TRUE))]_vars

\* C3: Contains(k) returns true when a node equivalent to k is resident and
\* false when none is, and it never changes the list.
C3_ContainsIsMembership ==
  [][lastOp' = "Contains"
       => (/\ ret' = Bool(ResidentKey(links_, key_, lastKey'))
           /\ links_' = links_ /\ key_' = key_ /\ size_' = size_)]_vars

\* C4: Erase(k) of a resident key k returns true; afterwards Contains(k) is
\* false, no link of the header or of a remaining node leads to a removed
\* node, and every other resident key is still resident.
C4_EraseCorrect ==
  [][(lastOp' = "Erase" /\ ResidentKey(links_, key_, lastKey'))
       => (/\ ret' = "true"
           /\ ContainsReturns(links_', key_', lastKey', FALSE)
           /\ \A n \in Resident(links_) :
                IF Equiv(key_[n], lastKey')
                THEN \A m \in DOMAIN links_' : \A i \in DOMAIN links_'[m] :
                       links_'[m][i] # n
                ELSE n \in Resident(links_') /\ key_'[n] = key_[n])]_vars

\* C5: when Erase(k) of a resident key k returns, Size() is one less than
\* it was before the call.
C5_EraseDecrementsSize ==
  [][(lastOp' = "Erase" /\ ResidentKey(links_, key_, lastKey') /\ ret' # "crash")
       => size_' = size_ - 1]_vars

\* C6: Erase(k) of a key k that is not resident returns false and leaves
\* Size() and every link of the header and of every node as they were.
C6_EraseAbsent ==
  [][(lastOp' = "Erase" /\ ~ResidentKey(links_, key_, lastKey'))
       => (ret' = "false" /\ size_' = size_ /\ links_' = links_)]_vars

\* C7: after Clear(), Empty() is true, Size() is 0 and the header has no
\* forward link at any level; no node remains owned by the list.
C7_ClearEmpties ==
  lastOp = "Clear"
    => (/\ ret = "void"
        /\ Empty
        /\ Size = 0
        /\ \A i \in Levels : links_[Hdr][i] = Nil
        /\ Resident(links_) = {})

\* C8: the keys met along the level-0 links from the header are in strictly
\* ascending comparator order and are exactly the resident keys.
C8_Level0Sorted ==
  Running
    => (/\ StrictlyAscending(ChainKeys(links_, key_, LOWEST_LEVEL))
        /\ Range(Chain(links_, LOWEST_LEVEL)) = Resident(links_))

\* C9: no two nodes reachable from the header have equivalent keys.
C9_KeysUnique ==
  Running
    => \A n \in Resident(links_) : \A m \in Resident(links_) :
         Equiv(key_[n], key_[m]) => n = m

\* C10: Size() equals the number of nodes on the level-0 chain.
C10_SizeIsChainLength ==
  Running => Size = Len(Chain(links_, LOWEST_LEVEL))

\* C11: RandomHeight returns a height in 1..MaxHeight for every sequence of
\* values of the random source, every resident node has a link array of a
\* length in that range, and the length of a node's link array stays what
\* it was for as long as the node is resident.
C11_HeightBounds ==
  /\ [](/\ \A draws \in Draws : RandomHeight(draws) \in 1 .. MaxHeight
        /\ \A n \in Resident(links_) : Height(links_, n) \in 1 .. MaxHeight)
  /\ [][\A n \in Resident(links_) \cap Resident(links_') :
          Height(links_', n) = Height(links_, n)]_vars

\* a node of the greatest height and a node of height 1 are resident after
\* an operation other than Insert has run on them
C11_Witness ==
  /\ \E n \in Resident(links_) : Height(links_, n) = MaxHeight
  /\ \E n \in Resident(links_) : Height(links_, n) = 1
  /\ lastOp = "Erase"
  /\ Running

\* C12: every operation that is started runs to one of its return
\* statements: the level loop of Contains and of Erase leaves after level 0,
\* and no call ends the process.
C12_OperationsReturn ==
  [][/\ ret' # "crash"
     /\ lastOp' = "Contains" => ~ContainsOp(links_, key_, lastKey').ub
     /\ lastOp' = "Erase" =>
          /\ ~ContainsOp(links_, key_, lastKey').ub
          /\ ContainsOp(links_, key_, lastKey').ret => ~EraseLoop(links_, key_, lastKey').ub
     /\ lastOp' = "Insert" =>
          \A h \in 1 .. MaxHeight : ~InsertOp(links_, key_, size_, lastKey', h).ub
     /\ lastOp' = "Clear" => ~Drop(links_).ub]_vars

\* C14: an Erase(k) that gets past its Contains test never reads the key or
\* the link of an absent successor: a level whose next link is null is
\* skipped.
C14_EraseSkipsAbsentLink ==
  [][(lastOp' = "Erase" /\ ContainsReturns(links_, key_, lastKey', TRUE))
       => ~EraseLoop(links_, key_, lastKey').null]_vars

\* the update array Insert(key) has filled when its level loop is done
InsertUpdate(L, K, key) ==
  InsertDescend(L, K, key, Hdr, MaxHeight - 1, [i \in Levels |-> Nil])

\* the last node on the level-i chain whose key is below key, else the header
LastBelow(L, K, key, i) ==
  LET c == Chain(L, i)
      below == {j \in 1 .. Len(c) : compare_(K[c[j]], key)}
  IN  IF below = {} THEN Hdr
      ELSE c[CHOOSE j \in below : \A j2 \in below : j2 <= j]

\* the node an Insert step has linked
Linked == CHOOSE n \in Resident(links_') : n \notin Resident(links_)

\* C15: when Insert(k) has finished its level loop, update[i] is for every
\* level i the last node on the level-i chain whose key is below k, or the
\* header when there is none, and the new node is spliced right after
\* update[i] at every level below its height.
C15_InsertPredecessors ==
  [][(lastOp' = "Insert" /\ InsertUpdate(links_, key_, lastKey').kind = "ok")
       => \A i \in Levels :
            LET u == InsertUpdate(links_, key_, lastKey').update[i]
            IN  /\ u = LastBelow(links_, key_, lastKey', i)
                /\ i < Height(links_', Linked)
                     => /\ links_'[u][i] = Linked
                        /\ links_'[Linked][i] = links_[u][i]]_vars

\* nodes on the level-i chain
OnLevel(L, i) == Range(Chain(L, i))

\* C16: every node on the level-i chain (i > 0) is also on the level-(i-1)
\* chain, and a node of height h is on exactly the chains of levels 0..h-1.
C16_ContiguousLevels ==
  Running
    => /\ \A i \in Levels \ {0} : OnLevel(links_, i) \subseteq OnLevel(links_, i - 1)
       /\ \A n \in Resident(links_) :
            {i \in Levels : n \in OnLevel(links_, i)} = 0 .. (Height(links_, n) - 1)

\* C17: a successful Insert(k) with drawn height h leaves every link at a
\* level i >= h of the header and of every node that was there before as it
\* was, and at a level i < h it changes, on those nodes, the level-i link of
\* update[i] only.
C17_InsertFrame ==
  [][(lastOp' = "Insert" /\ ret' = "true")
       => \A n \in DOMAIN links_ :
            /\ n \in DOMAIN links_'
            /\ DOMAIN links_'[n] = DOMAIN links_[n]
            /\ \A i \in DOMAIN links_[n] :
                 links_'[n][i] # links_[n][i]
                   => /\ i < Height(links_', Linked)
                      /\ n = InsertUpdate(links_, key_, lastKey').update[i]]_vars

\* a successful Insert has linked a node of height 1 behind a node that is
\* not the header, while the header and another node have links above it
C17_Witness ==
  /\ lastOp = "Insert"
  /\ ret = "true"
  /\ \E n \in Resident(links_) :
       /\ key_[n] = lastKey
       /\ Height(links_, n) = 1
       /\ \A m \in Resident(links_) : key_[m] = lastKey => m = n
       /\ links_[Hdr][LOWEST_LEVEL] # n
       /\ \E m \in Resident(links_) : links_[m][LOWEST_LEVEL] = n
  /\ links_[Hdr][MaxHeight - 1] # Nil

\* the keys with the value v stored in the header's key field
WithHeaderKey(K, v) == [K EXCEPT ![Hdr] = v]

\* C18: what Insert(k) and Erase(k) return and the links they leave do not
\* depend on the value stored in the header's key field: run on the same
\* list with any other value there, the call does the same.
C18_HeaderKeyless ==
  [][\A v \in Keys :
       /\ lastOp' = "Insert" =>
            \A h \in 1 .. MaxHeight :
              LET a == InsertOp(links_, key_, size_, lastKey', h)
                  b == InsertOp(links_, WithHeaderKey(key_, v), size_, lastKey', h)
              IN  a.ret = b.ret /\ a.ub = b.ub /\ a.links = b.links
       /\ (lastOp' = "Erase" /\ ContainsReturns(links_, key_, lastKey', TRUE)) =>
            LET a == EraseLoop(links_, key_, lastKey')
                b == EraseLoop(links_, WithHeaderKey(key_, v), lastKey')
            IN  a.ub = b.ub /\ a.null = b.null /\ a.links = b.links]_vars

\* C19: whatever operation is started on the list, with whatever key, each
\* Next(level), SetNext(level, ...) and links_[level] it makes is on a node
\* that is present, with a level below that node's height.
C19_AccessesInBounds ==
  Running
    => /\ ~Drop(links_).ub
       /\ \A key \in Keys :
            /\ ~ContainsOp(links_, key_, key).ub
            /\ ContainsOp(links_, key_, key).ret => ~EraseLoop(links_, key_, key).ub
            /\ Cardinality(Resident(links_)) < MaxSize =>
                 \A h \in 1 .. MaxHeight : ~InsertOp(links_, key_, size_, key, h).ub

\* no node occurs twice in the sequence s
NoRepeat(s) == \A j \in 1 .. Len(s) : \A j2 \in 1 .. Len(s) : s[j] = s[j2] => j = j2

\* C20: at every level the chain from the header is finite, meets no node
\* twice and meets keys in strictly ascending comparator order.
C20_LevelsSortedAcyclic ==
  Running
    => \A i \in Levels :
         /\ Len(Chain(links_, i)) <= Cardinality(Resident(links_))
         /\ NoRepeat(Chain(links_, i))
         /\ StrictlyAscending(ChainKeys(links_, key_, i))

====
